---- MODULE Spec2Model ----
(***************************************************************************)
(* A model of tispp.hpp, a Lisp-like interpreter evaluated by the C++      *)
(* template machinery.  Every metafunction of the header is a pure         *)
(* function from types to a type; a failed static_assert, a missing        *)
(* specialisation or a non-constant template argument stops the            *)
(* translation and is modelled by an Error result.                         *)
(*                                                                         *)
(* Types are records tagged by the template they instantiate; an Array     *)
(* (and so a Dict and an Env) is a sequence of its element types.          *)
(***************************************************************************)
EXTENDS Integers, Sequences, FiniteSets, TLC

VARIABLES env, call, res

vars == <<env, call, res>>

----------------------------------------------------------------------------
(* Bounds of the model. *)

\* most frames an environment is grown to
MaxFrames == 4
\* most bindings an environment holds, over all of its frames
MaxBindings == 3
\* most arguments a variadic operator application is grown to
MaxArgs == 4
\* most elements an Array is grown to
MaxLen == 3

----------------------------------------------------------------------------
(* namespace ast: the value types and the operator terms. *)

Nil == [tag |-> "Nil"]

Bool(V) == [tag |-> "Bool", v |-> V]

Char(V) == [tag |-> "Char", v |-> V]

\* Int<V>; the name Int is taken by the Integers module.
IntT(V) == [tag |-> "Int", v |-> V]

Symbol(name) == [tag |-> "Symbol", v |-> name]

Var(name) == [tag |-> "Var", v |-> name]

Pair(L, R) == [tag |-> "Pair", l |-> L, r |-> R]

\* Add<Args...>, Sub<Args...>, Mul<Args...>, Mod<Args...>, And<Args...>,
\* Or<Args...>; IsEqual<L, R> and the four comparisons take two arguments.
Term(OpName, Args) == [tag |-> OpName, args |-> Args]

\* List<T, Args...>: a template of one parameter or more, without members
\* but repr.
List(Args) == Term("List", Args)

ChainOperators == {"Add", "Sub", "Mul", "Mod", "And", "Or"}

BinaryOperators == {"IsGreaterThan", "IsLessThan", "IsGreaterEqual", "IsLessEqual"}

\* The range of the template parameter `int V` of Int.
IntMax == 2147483647

IntMin == (-IntMax) - 1

----------------------------------------------------------------------------
(* A translation that fails: the message of the static_assert, or what the *)
(* compiler reports.                                                       *)

Error(msg) == [tag |-> "Error", msg |-> msg]

IsError(T) == T.tag = "Error"

CannotFindVariable == Error("Cannot find variable.")

IncompatibleTypes(OpName) == Error("Incompatible types for operation " \o OpName)

NotConstant == Error("not a constant expression")

IncompleteType == Error("incomplete type")

----------------------------------------------------------------------------
(* namespace utils: Array. *)

\* Array<Elements...> where a type is recorded, as the terms are
Array(Elements) == [tag |-> "Array", elems |-> Elements]

\* ArrayHead<Array<>>::type is Nil.
ArrayHead(array) == IF array = <<>> THEN Nil ELSE Head(array)

ArrayTailKeepsHead(array) == array

\* ArrayTail<Array<>>::type is Array<>.
ArrayTail(array) == IF array = <<>> THEN <<>> ELSE Tail(array)

ArrayPushFront(array, Elem) == <<Elem>> \o array

ArrayPushBack(array, Elem) == array \o <<Elem>>

ArrayExtendBackReversed(Environ, Extra) == Extra \o Environ

ArrayExtendBack(Environ, Extra) == Environ \o Extra

ArrayPopFront(array) ==
  IF array = <<>> THEN IncompleteType
  ELSE [tag |-> "ArrayPopFront", type |-> Tail(array), poped |-> Array(Head(array))]

(* Dict: an Array of Pair<K, V>. *)

DictPutBehind(dict, pair) == dict \o <<pair>>

\* DictPut is ArrayPushFront: the pair is put in front, whatever the Dict
\* holds.
DictPut(dict, pair) == ArrayPushFront(dict, pair)

RECURSIVE DictGet(_, _)
DictGet(dict, K) ==
  IF dict = <<>> THEN Nil
  ELSE IF dict[1].l = K THEN dict[1].r
  ELSE DictGet(Tail(dict), K)

(* Env: an Array of Dicts, the innermost scope first. *)

EnvPushFront(e, dict) == ArrayPushFront(e, dict)

EnvPopFront(e) == ArrayPopFront(e)

EnvPut(e, K, V) ==
  IF e = <<>> THEN << <<Pair(K, V)>> >>
  ELSE <<DictPut(e[1], Pair(K, V))>> \o Tail(e)

\* The primary template asserts; Env<dict> has no assertion; Env<dict, Tail...>
\* names EnvLookup<Env<Tail...>, K>::type whichever branch std::conditional
\* takes, so the lookup in the outer frames is instantiated, with its own
\* assertion, before this frame's assertion is looked at.
RECURSIVE EnvLookup(_, _)
EnvLookup(e, K) ==
  IF e = <<>> THEN CannotFindVariable
  ELSE IF Len(e) = 1 THEN DictGet(e[1], K)
  ELSE LET current_scope_value == DictGet(e[1], K)
           outer == EnvLookup(Tail(e), K)
           type == IF current_scope_value = Nil THEN outer ELSE current_scope_value
       IN  IF IsError(outer) THEN outer
           ELSE IF type = Nil THEN CannotFindVariable
           ELSE type

----------------------------------------------------------------------------
(* namespace utils: ListImpl. *)

NoTypeInList == Error("no type named 'type' in List")

\* ListImpl<T> is Pair<T, Nil>; ListImpl<T, Args...> names
\* List<Args...>::type, a member List does not have.
ListImpl(Args) ==
  IF Len(Args) = 1 THEN Pair(Args[1], Nil) ELSE NoTypeInList

----------------------------------------------------------------------------
(* crisp/base/list.hpp, the sequence library that list_test.cpp tests.     *)
(* The header is not among the sources: its metafunctions are modelled     *)
(* from the specification of the sequence library and from the test, which *)
(* names the applications that do not compile.                             *)

EmptySequence == Error("EmptySequence")

OutOfRange == Error("OutOfRange")

head(s) == IF s = <<>> THEN EmptySequence ELSE s[1]

last(s) == IF s = <<>> THEN EmptySequence ELSE s[Len(s)]

init(s) == IF s = <<>> THEN EmptySequence ELSE Array(SubSeq(s, 1, Len(s) - 1))

tail(s) == IF s = <<>> THEN EmptySequence ELSE Array(SubSeq(s, 2, Len(s)))

prepended(s, x) == Array(<<x>> \o s)

appended(s, x) == Array(s \o <<x>>)

appended_all(s1, s2) == Array(s1 \o s2)

takeUnchecked(s, n) == Array(SubSeq(s, 1, IF n > Len(s) THEN Len(s) ELSE n))

take(s, n) == IF n > Len(s) THEN OutOfRange ELSE Array(SubSeq(s, 1, n))

----------------------------------------------------------------------------
(* namespace utils: the binary rules of the operators. *)

Abs(x) == IF x < 0 THEN -x ELSE x

\* Whether LV Operator RV is a constant expression of type int: the
\* arithmetic of a template argument may not overflow nor divide by zero.
\* Each test is written so that no intermediate value leaves the int range.
IsConstant(OpName, LV, RV) ==
  CASE OpName = "Add" -> IF RV >= 0 THEN LV <= IntMax - RV ELSE LV >= IntMin - RV
    [] OpName = "Sub" -> IF RV >= 0 THEN LV >= IntMin + RV ELSE LV <= IntMax + RV
    [] OpName = "Mul" ->
         IF LV = 0 \/ RV = 0 THEN TRUE
         ELSE IF LV = IntMin THEN RV = 1
         ELSE IF RV = IntMin THEN LV = 1
         ELSE LET x == Abs(LV)
                  y == Abs(RV)
              IN  IF (LV > 0) = (RV > 0) THEN x <= IntMax \div y
                  ELSE \/ x <= IntMax \div y
                       \/ x = (IntMax \div y) + 1 /\ IntMax % y = y - 1
    [] OpName = "Mod" -> RV # 0 /\ ~(LV = IntMin /\ RV = -1)
    [] OTHER -> TRUE

\* the remainder of the floored quotient: never negative
RemainderFloored(LV, RV) ==
  IF RV = IntMin THEN (IF LV = IntMin THEN 0 ELSE LV) ELSE LV % Abs(RV)

\* LV % RV of C++: the quotient is truncated, the sign is the dividend's.
Remainder(LV, RV) ==
  IF RV = IntMin THEN (IF LV = IntMin THEN 0 ELSE LV)
  ELSE LET y == Abs(RV)
       IN  IF LV >= 0 THEN LV % y
           ELSE IF LV = IntMin THEN -(((IntMax % y) + 1) % y)
           ELSE -((-LV) % y)

\* template <int LV, int RV> struct AddImpl<Int<LV>, Int<RV>>, and the primary
\* template with its static_assert.  An operand that failed to translate
\* leaves no type to apply the rule to.
AddImpl(L, R) ==
  IF IsError(L) THEN L
  ELSE IF IsError(R) THEN R
  ELSE IF L.tag = "Int" /\ R.tag = "Int"
       THEN IF IsConstant("Add", L.v, R.v) THEN IntT(L.v + R.v) ELSE NotConstant
  ELSE IncompatibleTypes("Add")

\* The rows of the BinaryOperator table: LeftType and RightType ...
OperandType(OpName) == IF OpName \in {"And", "Or"} THEN "Bool" ELSE "Int"

\* ... ResultType ...
ResultType(OpName) == IF OpName \in {"Sub", "Mul", "Mod"} THEN "Int" ELSE "Bool"

\* ... and Operator.
Operator(OpName, LV, RV) ==
  CASE OpName = "Sub" -> LV - RV
    [] OpName = "Mul" -> LV * RV
    [] OpName = "Mod" -> Remainder(LV, RV)
    [] OpName = "And" -> LV /\ RV
    [] OpName = "Or" -> LV \/ RV
    [] OpName = "IsGreaterThan" -> LV > RV
    [] OpName = "IsLessThan" -> LV < RV
    [] OpName = "IsGreaterEqual" -> LV >= RV
    [] OpName = "IsLessEqual" -> LV <= RV

\* BinaryOperator with a primary template that asserts nothing and yields L.
BinaryOperatorUnchecked(OpName, L, R) ==
  IF IsError(L) THEN L
  ELSE IF IsError(R) THEN R
  ELSE IF L.tag = OperandType(OpName) /\ R.tag = OperandType(OpName)
       THEN IF IsConstant(OpName, L.v, R.v)
            THEN [tag |-> ResultType(OpName), v |-> Operator(OpName, L.v, R.v)]
            ELSE NotConstant
  ELSE L

\* OpName##Impl<L, R> as the macro BinaryOperator defines it.
BinaryOperator(OpName, L, R) ==
  IF IsError(L) THEN L
  ELSE IF IsError(R) THEN R
  ELSE IF L.tag = OperandType(OpName) /\ R.tag = OperandType(OpName)
       THEN IF IsConstant(OpName, L.v, R.v)
            THEN [tag |-> ResultType(OpName), v |-> Operator(OpName, L.v, R.v)]
            ELSE NotConstant
  ELSE IncompatibleTypes(OpName)

\* OpName##Impl<L, R>::type for any OpName.
Impl(OpName, L, R) ==
  IF OpName = "Add" THEN AddImpl(L, R) ELSE BinaryOperator(OpName, L, R)

\* IsEqualImpl comparing the templates of L and R and not their arguments.
IsEqualImplSameTemplate(L, R) ==
  IF IsError(L) THEN L
  ELSE IF IsError(R) THEN R
  ELSE Bool(L.tag = R.tag)

\* std::is_same of two types.
IsEqualImpl(L, R) ==
  IF IsError(L) THEN L
  ELSE IF IsError(R) THEN R
  ELSE Bool(L = R)

----------------------------------------------------------------------------
(* namespace interpreter: Eval. *)

RECURSIVE Eval(_)

\* Eval<OpName<T>>, Eval<OpName<L, R>> and Eval<OpName<L, R, Args...>> of the
\* macro EvalForChainOperator, and the same three specialisations written
\* out for Add.  Args holds one argument or more.
EvalForChainOperator(OpName, Args) ==
  IF Len(Args) = 1 THEN Args[1]
  ELSE IF Len(Args) = 2 THEN Impl(OpName, Eval(Args[1]), Eval(Args[2]))
  ELSE LET LT == Impl(OpName, Eval(Args[1]), Eval(Args[2]))
           RT == Eval(Term(OpName, SubSeq(Args, 3, Len(Args))))
       IN  Impl(OpName, LT, RT)

\* Eval<IsEqual<L, R>>
EvalIsEqual(L, R) == IsEqualImpl(Eval(L), Eval(R))

\* Eval<OpName<L, R>> of the macro EvalForBinaryOperator.
EvalForBinaryOperator(OpName, L, R) == Impl(OpName, Eval(L), Eval(R))

\* Eval<T>::type: the specialisation that matches T, or the primary template,
\* whose type is T itself.
Eval(T) ==
  IF T.tag \in ChainOperators /\ Len(T.args) >= 1
    THEN EvalForChainOperator(T.tag, T.args)
  ELSE IF T.tag = "IsEqual" THEN EvalIsEqual(T.args[1], T.args[2])
  ELSE IF T.tag \in BinaryOperators
    THEN EvalForBinaryOperator(T.tag, T.args[1], T.args[2])
  ELSE T

----------------------------------------------------------------------------
(* The inputs the model draws from. *)

Keys == {Var("k"), Var("j")}

Values == {IntT(1), IntT(2), Nil}

\* the frames handed to EnvPushFront: the empty Dict or a Dict of one pair
PushDicts == {<<>>} \cup {<<Pair(K, V)>> : K \in Keys, V \in Values}

Sum12 == Term("Add", <<IntT(1), IntT(2)>>)

\* the arguments a variadic application is grown by
Operands == {IntT(1), IntT(2), Bool(TRUE), Bool(FALSE), Char("a"), Sum12}

\* the arguments of the two-argument applications
Operands2 ==
  Operands \cup
  { IntT(IntMin), IntT(-1), IntT(0), IntT(3), IntT(IntMax), Nil, Symbol("k"), Var("k"),
    Pair(IntT(1), Nil), Pair(IntT(1), IntT(2)), Pair(Bool(TRUE), Nil),
    Term("And", <<Bool(TRUE), Bool(FALSE)>>), Term("Add", <<Sum12>>),
    Term("Add", <<IntT(1), Bool(TRUE)>>) }

\* the terms an evaluation starts from
StartTerms ==
  Operands2
  \cup {Term(OpName, <<>>) : OpName \in ChainOperators}
  \cup {Term(OpName, <<L, R>>) :
          OpName \in ChainOperators \cup BinaryOperators \cup {"IsEqual"},
          L \in Operands2, R \in Operands2}

\* the arguments of the List terms
ListArgs ==
  {<<A>> : A \in {IntT(1), Bool(TRUE), Sum12}}
  \cup {<<IntT(1), A>> : A \in {IntT(2), Nil}}
  \cup {<<IntT(1), IntT(2), IntT(3)>>}

RECURSIVE PairChain(_)
\* Pair<v1, Pair<v2, ... Pair<vn, Nil>>>
PairChain(Args) ==
  IF Args = <<>> THEN Nil ELSE Pair(Args[1], PairChain(Tail(Args)))

\* the List terms, and their comparisons with a Pair chain
ListTerms ==
  {List(Args) : Args \in ListArgs}
  \cup {Term("IsEqual", <<List(Args), PairChain(Chain)>>) :
          Args \in ListArgs, Chain \in ListArgs}

RECURSIVE NumBindings(_)
NumBindings(e) == IF e = <<>> THEN 0 ELSE Len(e[1]) + NumBindings(Tail(e))

----------------------------------------------------------------------------
(* The state: the environment threaded through the program, the            *)
(* metafunction applied last and its result.                               *)

Call(fn, K, V) == [fn |-> fn, K |-> K, V |-> V]

Init ==
  /\ env = <<>>
  /\ call = Call("none", Nil, Nil)
  /\ res = Nil

DoEnvPut(K, V) ==
  /\ NumBindings(env) < MaxBindings
  /\ Len(env) <= MaxFrames
  /\ env' = EnvPut(env, K, V)
  /\ call' = Call("EnvPut", K, V)
  /\ res' = Array(EnvPut(env, K, V))

DoEnvPushFront(dict) ==
  /\ Len(env) < MaxFrames
  /\ NumBindings(env) + Len(dict) <= MaxBindings
  /\ env' = EnvPushFront(env, dict)
  /\ call' = Call("EnvPushFront", Nil, Array(dict))
  /\ res' = Array(EnvPushFront(env, dict))

DoEnvPopFront ==
  LET popped == EnvPopFront(env)
  IN  /\ call' = Call("EnvPopFront", Nil, Nil)
      /\ res' = popped
      /\ env' = IF IsError(popped) THEN env ELSE popped.type

DoEnvLookup(K) ==
  /\ call' = Call("EnvLookup", K, Nil)
  /\ res' = EnvLookup(env, K)
  /\ UNCHANGED env

\* Eval takes the term alone: no environment is among its parameters.
DoEval(T) ==
  /\ call' = Call("Eval", T, Nil)
  /\ res' = Eval(T)
  /\ UNCHANGED env

\* A program that evaluates a variable reference in the scope it built.
EvalVar(K) == DoEval(K)

\* A program that evaluates one term.
EvalStart ==
  /\ call.fn = "none"
  /\ \E T \in StartTerms : DoEval(T)

\* The variadic application evaluated last, with one more argument.
EvalExtend(A) ==
  /\ call.fn = "Eval"
  /\ call.K.tag \in ChainOperators
  /\ Len(call.K.args) < MaxArgs
  /\ DoEval(Term(call.K.tag, Append(call.K.args, A)))

Next ==
  \/ \E K \in Keys, V \in Values : DoEnvPut(K, V)
  \/ \E dict \in PushDicts : DoEnvPushFront(dict)
  \/ DoEnvPopFront
  \/ \E K \in Keys : DoEnvLookup(K)
  \/ \E K \in Keys : EvalVar(K)

Spec == Init /\ [][Next]_vars

EvalList ==
  /\ call.fn = "none"
  /\ \E T \in ListTerms : DoEval(T)

DoListImpl ==
  /\ call.fn = "none"
  /\ \E Args \in ListArgs :
       /\ call' = Call("ListImpl", List(Args), Nil)
       /\ res' = ListImpl(Args)
       /\ UNCHANGED env

NextEval ==
  \/ EvalStart
  \/ \E A \in Operands : EvalExtend(A)
  \/ EvalList
  \/ DoListImpl

SpecEval == Init /\ [][NextEval]_vars

----------------------------------------------------------------------------
(* The sequences: an Array is built from Array<> one element at a time,    *)
(* and a metafunction of either library is applied to the Array built.     *)

Elements == {IntT(1), Bool(TRUE), Char("a")}

\* the Arrays an Array is extended by
Extras == {<<>>} \cup {<<E>> : E \in Elements}
         \cup {<<IntT(1), E>> : E \in Elements}

NewArray ==
  /\ call.fn = "none"
  /\ call' = Call("Array", Nil, Nil)
  /\ res' = Array(<<>>)
  /\ UNCHANGED env

\* the application of the metafunction fn to the Array built, with type its
\* result
Apply(fn, V, type) ==
  /\ res.tag = "Array"
  /\ call' = Call(fn, res, V)
  /\ res' = type
  /\ UNCHANGED env

DoArrayHead == Apply("ArrayHead", Nil, ArrayHead(res.elems))

DoArrayTail == Apply("ArrayTail", Nil, Array(ArrayTail(res.elems)))

DoArrayPushFront(Elem) ==
  /\ res.tag = "Array"
  /\ Len(res.elems) < MaxLen
  /\ Apply("ArrayPushFront", Elem, Array(ArrayPushFront(res.elems, Elem)))

DoArrayPushBack(Elem) ==
  /\ res.tag = "Array"
  /\ Len(res.elems) < MaxLen
  /\ Apply("ArrayPushBack", Elem, Array(ArrayPushBack(res.elems, Elem)))

DoArrayPopFront == Apply("ArrayPopFront", Nil, ArrayPopFront(res.elems))

DoArrayExtendBack(Extra) ==
  /\ res.tag = "Array"
  /\ Len(res.elems) + Len(Extra) <= MaxLen
  /\ Apply("ArrayExtendBack", Array(Extra),
           Array(ArrayExtendBack(res.elems, Extra)))

DoHead == Apply("head", Nil, head(res.elems))

DoLast == Apply("last", Nil, last(res.elems))

DoInit == Apply("init", Nil, init(res.elems))

DoTail == Apply("tail", Nil, tail(res.elems))

DoPrepended(x) ==
  /\ res.tag = "Array"
  /\ Len(res.elems) < MaxLen
  /\ Apply("prepended", x, prepended(res.elems, x))

DoAppended(x) ==
  /\ res.tag = "Array"
  /\ Len(res.elems) < MaxLen
  /\ Apply("appended", x, appended(res.elems, x))

DoAppendedAll(s2) ==
  /\ res.tag = "Array"
  /\ Len(res.elems) + Len(s2) <= MaxLen
  /\ Apply("appended_all", Array(s2), appended_all(res.elems, s2))

DoTake(n) == Apply("take", IntT(n), take(res.elems, n))

NextArray ==
  \/ NewArray
  \/ DoArrayHead
  \/ DoArrayTail
  \/ \E Elem \in Elements : DoArrayPushFront(Elem)
  \/ \E Elem \in Elements : DoArrayPushBack(Elem)
  \/ DoArrayPopFront
  \/ \E Extra \in Extras : DoArrayExtendBack(Extra)
  \/ DoHead
  \/ DoLast
  \/ DoInit
  \/ DoTail
  \/ \E x \in Elements : DoPrepended(x)
  \/ \E x \in Elements : DoAppended(x)
  \/ \E s2 \in Extras : DoAppendedAll(s2)
  \/ \E n \in 0..(MaxLen + 1) : DoTake(n)

SpecArray == Init /\ [][NextArray]_vars

----------------------------------------------------------------------------
(* What the environment is specified to hold: a frame binds K when it has  *)
(* a pair for K, its binding is the pair put last (DictPut puts in front), *)
(* and a symbol is bound by the innermost frame that has it.               *)

HasKey(dict, K) == \E i \in 1..Len(dict) : dict[i].l = K

FrameValue(dict, K) ==
  dict[CHOOSE i \in 1..Len(dict) :
         dict[i].l = K /\ \A j \in 1..(i - 1) : dict[j].l # K].r

IsBound(e, K) == \E i \in 1..Len(e) : HasKey(e[i], K)

InnermostBinding(e, K) ==
  FrameValue(e[CHOOSE i \in 1..Len(e) :
                 HasKey(e[i], K) /\ \A j \in 1..(i - 1) : ~HasKey(e[j], K)], K)

----------------------------------------------------------------------------
(* The environment. *)

\* C1: a lookup of a symbol that some frame binds returns the value bound to
\* it in the innermost frame that has it, whatever the number of frames and
\* whether or not an outer frame binds it too.  Stated for the bindings
\* other than Nil, the type DictGet gives for a symbol a frame does not have.
LookupReturnsInnermostBinding ==
  (/\ call.fn = "EnvLookup"
   /\ IsBound(env, call.K)
   /\ InnermostBinding(env, call.K) # Nil)
    => res = InnermostBinding(env, call.K)

\* C2: write-then-read: after EnvPut(env, k, v), for any environment, symbol
\* and value (Nil included), the lookup of k succeeds and gives v.
WriteThenRead ==
  call.fn = "EnvPut" => EnvLookup(env, call.K) = call.V

\* C3: a lookup of a symbol that no frame has fails with the unbound-variable
\* error, for an environment of zero, one or more frames; it gives no value.
UnboundLookupFails ==
  (call.fn = "EnvLookup" /\ ~IsBound(env, call.K))
    => res = CannotFindVariable

\* C4: shadowing across scope entry and exit: once an empty innermost frame
\* is pushed on an environment that binds k to v1, binding k to v2 makes the
\* lookup of k give v2, and popping the frame makes it give v1 again.  Stated
\* for v1 and v2 other than Nil.
ShadowingAcrossScope ==
  (call.fn = "EnvPushFront" /\ call.V = Array(<<>>)) =>
    \A K \in Keys, v2 \in Values \ {Nil} :
      (IsBound(env, K) /\ InnermostBinding(env, K) # Nil) =>
        LET v1 == InnermostBinding(env, K)
            inner == EnvPut(env, K, v2)
        IN  /\ EnvLookup(inner, K) = v2
            /\ EnvLookup(EnvPopFront(inner).type, K) = v1

\* C10: evaluating a variable reference gives what the lookup of the symbol
\* gives in the environment of the evaluation, the unbound-variable error
\* when no frame binds it, and never the variable reference itself.
VarEvaluatesToLookup ==
  (call.fn = "Eval" /\ call.K.tag = "Var") =>
    /\ res = EnvLookup(env, call.K)
    /\ res # call.K
    /\ ~IsBound(env, call.K) => res = CannotFindVariable

----------------------------------------------------------------------------
(* The evaluator. *)

IsApplication(T) ==
  T.tag \in ChainOperators \cup BinaryOperators \cup {"IsEqual"}

\* the operand variant the registry gives each operator but IsEqual
RuleOperand(OpName) == IF OpName \in {"And", "Or"} THEN "Bool" ELSE "Int"

\* binary(...binary(binary(a1, a2), a3)..., an)
RECURSIVE FoldLeft(_, _)
FoldLeft(OpName, vals) ==
  IF Len(vals) = 1 THEN vals[1]
  ELSE Impl(OpName, FoldLeft(OpName, SubSeq(vals, 1, Len(vals) - 1)),
            vals[Len(vals)])

\* C5: a variadic operator applied to two or more operands of its operand
\* type evaluates to the left fold of its binary rule over the operands in
\* order.  Stated for operands that are literals.
VariadicIsLeftFold ==
  (/\ call.fn = "Eval"
   /\ call.K.tag \in ChainOperators
   /\ Len(call.K.args) >= 2
   /\ \A i \in 1..Len(call.K.args) :
        call.K.args[i].tag = RuleOperand(call.K.tag))
    => res = FoldLeft(call.K.tag, call.K.args)

\* C6: every argument of an operator application is reduced before the
\* operator's rule is applied: the application evaluates to what it
\* evaluates to with each argument replaced by its value, at every position.
ArgumentsReducedFirst ==
  (/\ call.fn = "Eval"
   /\ IsApplication(call.K)
   /\ Len(call.K.args) >= 1
   /\ \A i \in 1..Len(call.K.args) : ~IsError(Eval(call.K.args[i])))
    => res = Eval(Term(call.K.tag,
                       [i \in 1..Len(call.K.args) |-> Eval(call.K.args[i])]))

\* C7: a binary rule applied to an incompatible pair fails with the type
\* mismatch and gives no value: the arithmetic operators and the four
\* comparisons unless both reduced operands are Int, And and Or unless both
\* are Bool.
TypeMismatchFails ==
  (/\ call.fn = "Eval"
   /\ call.K.tag \in ChainOperators \cup BinaryOperators
   /\ Len(call.K.args) >= 2) =>
    LET L == Eval(call.K.args[1])
        R == Eval(call.K.args[2])
    IN  (/\ ~IsError(L)
         /\ ~IsError(R)
         /\ ~(L.tag = RuleOperand(call.K.tag) /\ R.tag = RuleOperand(call.K.tag)))
          => res = IncompatibleTypes(call.K.tag)

\* Add(Int 1, Bool true) was evaluated and failed.
TypeMismatchSeen ==
  /\ call.fn = "Eval"
  /\ call.K = Term("Add", <<IntT(1), Bool(TRUE)>>)
  /\ res = IncompatibleTypes("Add")

\* C8: a variadic operator applied to no argument fails to evaluate: it gives
\* neither an identity element nor the term itself.
ZeroArgumentsFail ==
  (/\ call.fn = "Eval"
   /\ call.K.tag \in ChainOperators
   /\ call.K.args = <<>>)
    => IsError(res)

\* the value model: Bool, Char, Int, Symbol, Nil and the Pairs of values
RECURSIVE IsValue(_)
IsValue(T) ==
  \/ T.tag \in {"Bool", "Char", "Int", "Symbol", "Nil"}
  \/ T.tag = "Pair" /\ IsValue(T.l) /\ IsValue(T.r)

\* the same variant with an equal payload
RECURSIVE SameValue(_, _)
SameValue(a, b) ==
  /\ a.tag = b.tag
  /\ CASE a.tag = "Nil" -> TRUE
       [] a.tag = "Pair" -> SameValue(a.l, b.l) /\ SameValue(a.r, b.r)
       [] OTHER -> a.v = b.v

\* C9: IsEqual is structural over the value model: IsEqual(L, R) evaluates to
\* Bool(true) exactly when the values L and R reduce to are the same variant
\* with an equal payload, and to Bool(false), not to an error, when their
\* variants differ.
IsEqualIsStructural ==
  (call.fn = "Eval" /\ call.K.tag = "IsEqual") =>
    LET L == Eval(call.K.args[1])
        R == Eval(call.K.args[2])
    IN  (IsValue(L) /\ IsValue(R)) =>
          /\ res = Bool(SameValue(L, R))
          /\ L.tag # R.tag => res = Bool(FALSE)

\* IsEqual(Add(Int 1, Int 2), Int 3) was evaluated, to Bool(true).
IsEqualSeen ==
  /\ call.fn = "Eval"
  /\ call.K = Term("IsEqual", <<Sum12, IntT(3)>>)
  /\ res = Bool(TRUE)

----------------------------------------------------------------------------
(* The sequence library. *)

\* the Array a metafunction of the sequence library was applied to
Applied == call.K.elems

\* C11: head and last of the empty sequence fail, they give no value, not
\* even Nil; of a non-empty sequence head is the first element and last the
\* final one.
HeadAndLast ==
  /\ call.fn \in {"ArrayHead", "head"} =>
       IF Applied = <<>> THEN IsError(res) ELSE res = Applied[1]
  /\ call.fn = "last" =>
       IF Applied = <<>> THEN IsError(res) ELSE res = Applied[Len(Applied)]

\* C12: for every non-empty sequence s, prepending head(s) to tail(s) gives
\* s back; the tail of a one-element sequence is the empty sequence, and
\* prepending succeeds on the empty sequence.
HeadTailRoundTrip ==
  /\ (call.fn = "ArrayTail" /\ Applied # <<>>) =>
       /\ res.tag = "Array"
       /\ Len(res.elems) = Len(Applied) - 1
       /\ \A i \in 1..Len(res.elems) : res.elems[i] = Applied[i + 1]
       /\ ArrayPushFront(res.elems, ArrayHead(Applied)) = Applied
       /\ Len(Applied) = 1 => res = Array(<<>>)
  /\ call.fn = "ArrayPushFront" =>
       /\ res.tag = "Array"
       /\ Len(res.elems) = Len(Applied) + 1
       /\ ArrayHead(res.elems) = call.V
       /\ ArrayTail(res.elems) = Applied

\* the tail of a three-element Array was taken and the round trip made
HeadTailRoundTripSeen ==
  /\ call.fn = "ArrayTail"
  /\ Len(Applied) = 3
  /\ Applied[1] # Applied[2]
  /\ ArrayPushFront(res.elems, ArrayHead(Applied)) = Applied

\* r holds the elements of s1 in order, followed by those of s2 in order
IsConcat(r, s1, s2) ==
  /\ r.tag = "Array"
  /\ Len(r.elems) = Len(s1) + Len(s2)
  /\ \A i \in 1..Len(s1) : r.elems[i] = s1[i]
  /\ \A i \in 1..Len(s2) : r.elems[Len(s1) + i] = s2[i]

\* C13: for every non-empty sequence s, the concatenation of init(s) and the
\* one-element sequence of last(s) is s; a concatenation holds the elements
\* of the first sequence in order, then those of the second in order, and the
\* concatenation of two empty sequences is empty.
InitLastRoundTrip ==
  /\ (call.fn = "init" /\ Applied # <<>>) =>
       /\ res.tag = "Array"
       /\ Array(ArrayExtendBack(res.elems, <<last(Applied)>>)) = call.K
       /\ Array(ArrayPushBack(res.elems, last(Applied))) = call.K
  /\ call.fn \in {"ArrayExtendBack", "appended_all"} =>
       /\ IsConcat(res, Applied, call.V.elems)
       /\ (Applied = <<>> /\ call.V.elems = <<>>) => res = Array(<<>>)
  /\ call.fn \in {"ArrayPushBack", "appended"} =>
       IsConcat(res, Applied, <<call.V>>)

\* init of a three-element sequence was taken, and extended by the last
\* element it is the sequence again
InitLastRoundTripSeen ==
  /\ call.fn = "init"
  /\ Len(Applied) = 3
  /\ Applied[1] # Applied[3]
  /\ Array(ArrayExtendBack(res.elems, <<last(Applied)>>)) = call.K

\* C14: take(s, n) is the first n elements of s, in order, for every n from
\* 0 to the length of s, and fails with OutOfRange for every n greater than
\* the length of s.
TakeIsPrefix ==
  call.fn = "take" =>
    LET n == call.V.v
    IN  IF n <= Len(Applied)
        THEN /\ res.tag = "Array"
             /\ Len(res.elems) = n
             /\ \A i \in 1..n : res.elems[i] = Applied[i]
        ELSE res = OutOfRange

\* two elements were taken of a three-element sequence
TakeIsPrefixSeen ==
  /\ call.fn = "take"
  /\ Len(Applied) = 3
  /\ call.V = IntT(2)
  /\ res = Array(<<Applied[1], Applied[2]>>)

----------------------------------------------------------------------------
(* The List term. *)

\* C15: the term List(v1, ..., vn) evaluates to, and is IsEqual to, the
\* right-nested chain Pair(v1, Pair(v2, ... Pair(vn, Nil))).
ListIsPairChain ==
  /\ (call.fn = "Eval" /\ call.K.tag = "List") =>
       res = PairChain(call.K.args)
  /\ ( /\ call.fn = "Eval"
       /\ call.K.tag = "IsEqual"
       /\ call.K.args[1].tag = "List"
       /\ call.K.args[2] = PairChain(call.K.args[1].args) ) =>
       res = Bool(TRUE)

----------------------------------------------------------------------------
(* The frames. *)

----------------------------------------------------------------------------
(* The arithmetic rules.  The exact result of an operation is compared     *)
(* with the int range without being computed: a sum or difference in       *)
(* halves, a product by division of the range.                             *)

\* an arithmetic application of two Int literals was evaluated
IsArithmetic ==
  /\ call.fn = "Eval"
  /\ call.K.tag \in {"Add", "Sub", "Mul", "Mod"}
  /\ Len(call.K.args) = 2
  /\ call.K.args[1].tag = "Int"
  /\ call.K.args[2].tag = "Int"

\* 2 * h + l lies in the int range
FitsInHalves(h, l) ==
  LET x == h + (l \div 2)
  IN  x >= IntMin \div 2 /\ x <= IntMax \div 2

\* the largest q with q * y <= 2^31, for y > 1
Floor231(y) == (IntMax \div y) + (IF IntMax % y = y - 1 THEN 1 ELSE 0)

ProductFits(a, b) ==
  IF a = 0 \/ b = 0 \/ b = 1 THEN TRUE
  ELSE IF b = -1 THEN a # IntMin
  ELSE IF b = IntMin THEN a = 1
  ELSE IF b > 1 THEN a <= IntMax \div b /\ a >= -Floor231(b)
  ELSE a >= -(IntMax \div (-b)) /\ a <= Floor231(-b)

\* the exact result of a OpName b is an int
HasIntResult(OpName, a, b) ==
  CASE OpName = "Add" -> FitsInHalves((a \div 2) + (b \div 2), (a % 2) + (b % 2))
    [] OpName = "Sub" -> FitsInHalves((a \div 2) - (b \div 2), (a % 2) - (b % 2))
    [] OpName = "Mul" -> ProductFits(a, b)
    [] OpName = "Mod" -> b # 0 /\ ~(a = IntMin /\ b = -1)

NegAbs(x) == IF x > 0 THEN -x ELSE x

\* r is the remainder of a by b, the quotient truncated: of the sign of a,
\* smaller than b in magnitude, and a - r a multiple of b
IsRemainder(r, a, b) ==
  /\ r = 0 \/ (r > 0) = (a > 0)
  /\ NegAbs(r) > NegAbs(b)
  /\ NegAbs(r) >= NegAbs(a)
  /\ IF b = IntMin THEN a - r \in {0, IntMin} ELSE (a - r) % Abs(b) = 0

\* C17: each arithmetic rule is total over the pairs of Int operands, a zero
\* second operand of Mod and the pairs whose exact result is out of the int
\* range included: Add, Sub, Mul and Mod each yield an Int, they do not fail.
ArithmeticIsTotal == IsArithmetic => res.tag = "Int"

\* C17, amended: Add, Sub, Mul and Mod yield the Int of the exact result for
\* the pairs of Int operands whose exact result lies in the int range and,
\* for Mod, whose second operand is not zero; for every other pair (Mod by
\* zero, a sum, difference, product or quotient out of the int range) the
\* evaluation fails.
ArithmeticWhereDefined ==
  IsArithmetic =>
    LET OpName == call.K.tag
        a == call.K.args[1].v
        b == call.K.args[2].v
    IN  IF HasIntResult(OpName, a, b)
        THEN /\ res.tag = "Int"
             /\ CASE OpName = "Add" -> res.v = a + b
                  [] OpName = "Sub" -> res.v = a - b
                  [] OpName = "Mul" -> res.v = a * b
                  [] OpName = "Mod" -> IsRemainder(res.v, a, b)
        ELSE res = NotConstant

\* Mod was evaluated with a zero second operand, and failed
ModByZeroSeen ==
  /\ IsArithmetic
  /\ call.K.tag = "Mod"
  /\ call.K.args[2] = IntT(0)
  /\ res = NotConstant

====
